---- MODULE Spec2Model ----
(***************************************************************************)
(* Model of the Telegram mini-app client in src/main.tsx: the App          *)
(* component (endpoint resolution, identity load, navigation state), the   *)
(* page components (fetch-on-mount controllers and the two creation        *)
(* forms) and the apiFetch gateway wrapper.                                *)
(*                                                                         *)
(* React semantics used by the model: component state (useState) belongs   *)
(* to one mounted instance; a different component type at the same tree    *)
(* position unmounts the old instance and mounts a fresh one; a state      *)
(* setter called for an unmounted instance has no effect; effects run      *)
(* after the commit that changed their dependencies.  User-visible strings *)
(* that are Cyrillic in the source are transliterated to ASCII.            *)
(***************************************************************************)
EXTENDS Integers, FiniteSets, Sequences, Bags, TLC

\* ---------------------------------------------------------------- bounds
MaxPending == 2     \* requests in flight plus timers pending at one time

\* ------------------------------------------------------------ value sets
Null == "null"
Ids == {"A", "B"}
Roles == {"user", "admin"}
LaunchParams == {"absent", "empty", "http://host"}

Pages == {"myTasks", "taskDetails", "myGroups", "groupDetails",
          "adminCreateTask", "adminCreateGroup", "adminAllGroups"}

navItems == {"myTasks", "myGroups"}
adminNavItems == {"adminCreateTask", "adminCreateGroup", "adminAllGroups"}

\* ------------------------------------------------------ gateway: apiFetch
\* An HTTP response as the client sees it.  body.kind: "none" (null body),
\* "json" (decodable; message = "" when the object has no usable message
\* field; canon = JSON.stringify of the decoded value) or "text".
NoBody == [kind |-> "none", message |-> "", raw |-> "", canon |-> ""]
JsonBody(message, raw, canon) ==
    [kind |-> "json", message |-> message, raw |-> raw, canon |-> canon]
TextBody(raw) == [kind |-> "text", message |-> "", raw |-> raw, canon |-> ""]

Response(status, ctype, body) ==
    [net |-> "ok", status |-> status, ctype |-> ctype, body |-> body]
NetworkFailure == [net |-> "fail", status |-> 0, ctype |-> "", body |-> NoBody]

RespData == Response(200, "application/json; charset=utf-8",
                     JsonBody("", "{ \"data\": 1 }", "{\"data\":1}"))
RespNoContent == Response(204, "", NoBody)
RespPlainOk == Response(200, "text/plain", TextBody("OK"))
RespNotFound == Response(404, "application/json",
                         JsonBody("not found", "{\"message\":\"not found\"}",
                                  "{\"message\":\"not found\"}"))
RespServerError == Response(500, "text/html", TextBody("Internal Server Error"))

\* Responses the transport delivers in the state machine.
Responses == {RespData, RespNoContent, RespPlainOk, RespNotFound,
              RespServerError, NetworkFailure}

ResponseOk(resp) == resp.status >= 200 /\ resp.status <= 299

StatusText(status) ==
    CASE status = 304 -> "Not Modified"
      [] status = 400 -> "Bad Request"
      [] status = 404 -> "Not Found"
      [] status = 500 -> "Internal Server Error"
      [] OTHER -> ""

\* Messages of the exceptions the platform raises (the exact wording
\* differs between JavaScript engines; Chromium's is used).
BodyUsedMessage ==
    "Failed to execute 'text' on 'Response': body stream already read"
JsonSyntaxMessage == "Unexpected token in JSON"
FetchFailedMessage == "Failed to fetch"
NullRoleMessage == "Cannot read properties of null (reading 'role')"

\* Decoded success values: ids for list/details results, role for the
\* identity; nodata marks the explicit null result.
Payload(ids, role) == [ids |-> ids, role |-> role]
EmptyPayload == Payload({}, Null)

Resolve(value) ==
    [kind |-> "resolve", nodata |-> FALSE, value |-> value, message |-> ""]
ResolveNull ==
    [kind |-> "resolve", nodata |-> TRUE, value |-> EmptyPayload, message |-> ""]
Reject(message) ==
    [kind |-> "reject", nodata |-> FALSE, value |-> EmptyPayload,
     message |-> message]

ApiErrorMessage(status, text) ==
    "API Error (" \o ToString(status) \o "): " \o text

\* response.json(): reads the body stream (a non-null body becomes used,
\* whether or not the text then parses) and decodes it.
ResponseJson(resp) ==
    [ok |-> resp.body.kind = "json",
     used |-> resp.body.kind # "none",
     message |-> JsonSyntaxMessage]

\* response.text(): rejects when the body stream was already read.
ResponseText(resp, used) ==
    IF used
    THEN [ok |-> FALSE, text |-> "", message |-> BodyUsedMessage]
    ELSE [ok |-> TRUE, text |-> resp.body.raw, message |-> ""]

\* The !response.ok branch: the Error thrown inside try (built from the
\* decoded body, or the decode failure) is caught by the bare catch, whose
\* handler reads response.text() and throws what that produces.
apiFetchError(resp) ==
    LET decoded == ResponseJson(resp)
        thrownInTry ==
            IF decoded.ok
            THEN ApiErrorMessage(resp.status,
                                 IF resp.body.message # ""
                                 THEN resp.body.message ELSE resp.body.canon)
            ELSE decoded.message
        errorText == ResponseText(resp, decoded.used)
    IN  IF errorText.ok
        THEN Reject(ApiErrorMessage(resp.status,
                                    IF errorText.text # "" THEN errorText.text
                                    ELSE StatusText(resp.status)))
        ELSE Reject(errorText.message)

\* apiFetch decoding every success body, whatever its content-type.
IncludesAnyType(ctype) == TRUE

\* contentType.includes('application/json')
IncludesJson(ctype) ==
    ctype \in {"application/json", "application/json; charset=utf-8"}

\* apiFetch: outcome of one request given the transport's response.
\* payload is the value the JSON body decodes to on success.
apiFetch(resp, payload) ==
    IF resp.net = "fail" THEN Reject(FetchFailedMessage)
    ELSE IF ~ResponseOk(resp) THEN apiFetchError(resp)
    ELSE IF resp.ctype = "" \/ ~IncludesJson(resp.ctype) THEN ResolveNull
    ELSE LET decoded == ResponseJson(resp)
         IN  IF decoded.ok THEN Resolve(payload) ELSE Reject(decoded.message)

\* ------------------------------------------------------------------ state
VARIABLES
    launch,           \* value of the 'replyip' query parameter of the launch URL
    tg,               \* window.Telegram?.WebApp is present
    phase,            \* "boot" before App's mount effects ran, then "running"
    apiBaseUrl,       \* App state (line 736)
    error,            \* App state (line 737)
    user,             \* App state (line 735): role of the loaded User, or Null
    currentPage,      \* App state (line 734)
    selectedTaskId,   \* App state (line 740)
    selectedGroupId,  \* App state (line 741)
    page,             \* the component renderPage has mounted, with its state
    inflight,         \* requests issued and not yet completed
    timers,           \* pending setTimeout callbacks of the creation forms
    last              \* history: the step taken last

vars == <<launch, tg, phase, apiBaseUrl, error, user, currentPage,
          selectedTaskId, selectedGroupId, page, inflight, timers, last>>

\* ------------------------------------------------------------- messages
ConfigErrorMessage == "Oshibka konfiguratsii: parametr 'replyip' ne naiden v URL."
AuthErrorPrefix == "Oshibka autentifikatsii: "
TaskRequiredMessage == "Pozhaluista, zapolnite vse obyazatelnye polya."
GroupRequiredMessage == "Imya gruppy yavlyaetsya obyazatelnym."

\* ----------------------------------------------------------- navigation
Nav(pg, taskId, groupId) ==
    [currentPage |-> pg, selectedTaskId |-> taskId, selectedGroupId |-> groupId]
CurrentNav == Nav(currentPage, selectedTaskId, selectedGroupId)

\* handleNavigate without the two selection resets.
handleNavigateKeepingSelection(pg) == Nav(pg, selectedTaskId, selectedGroupId)

handleNavigate(pg) == Nav(pg, Null, Null)

handleSelectTask(nav, taskId) ==
    [nav EXCEPT !.selectedTaskId = taskId, !.currentPage = "taskDetails"]

\* handleSelectGroup without the setCurrentPage call.
handleSelectGroupKeepingPage(nav, groupId) ==
    [nav EXCEPT !.selectedGroupId = groupId]

handleSelectGroup(nav, groupId) ==
    [nav EXCEPT !.selectedGroupId = groupId, !.currentPage = "groupDetails"]

\* handleBack returning every drill-down to the task list.
handleBackAlwaysTasks(nav, hasWebApp) ==
    IF nav.selectedTaskId # Null \/ nav.selectedGroupId # Null
    THEN handleNavigate("myTasks")
    ELSE IF hasWebApp THEN handleNavigate("myTasks") ELSE nav

\* handleBack doing nothing when no selection is active.
handleBackIdle(nav, hasWebApp) ==
    IF nav.selectedTaskId # Null \/ nav.selectedGroupId # Null
    THEN handleNavigate(IF nav.selectedTaskId # Null THEN "myTasks"
                        ELSE "myGroups")
    ELSE nav

handleBack(nav, hasWebApp) ==
    IF nav.selectedTaskId # Null \/ nav.selectedGroupId # Null
    THEN handleNavigate(IF nav.selectedTaskId # Null THEN "myTasks"
                        ELSE "myGroups")
    ELSE IF hasWebApp THEN handleNavigate("myTasks") ELSE nav

\* The identity effect without the admin redirect.
InitialPageNoRedirect(role) == "myTasks"

\* Page the identity effect puts the freshly loaded user on.
InitialPage(role) == IF role = "admin" THEN "adminCreateTask" ELSE "myTasks"

\* Endpoint resolution that accepts whatever get('replyip') returned.
ResolveEndpointUnchecked(param) == [apiBaseUrl |-> param, error |-> Null]

\* Endpoint resolution of the init effect: urlParams.get('replyip') is null
\* for an absent parameter; null and "" both fail the truthiness test.
ResolveEndpoint(param) ==
    IF param # "absent" /\ param # "empty"
    THEN [apiBaseUrl |-> param, error |-> Null]
    ELSE [apiBaseUrl |-> "", error |-> ConfigErrorMessage]

\* A navigation bar offering every tab to every role.
itemsToShowAll(role) == navItems \cup adminNavItems

itemsToShow(role) ==
    IF role = "admin" THEN navItems \cup adminNavItems ELSE navItems

\* ------------------------------------------------------------ rendering
Target(comp, key) == [comp |-> comp, key |-> key]

\* renderPage testing the identity before the fatal error.
renderPageLoadingFirst(err, usr, nav) ==
    IF usr = Null THEN Target("Loading", Null)
    ELSE IF err # Null THEN Target("ErrorDisplay", Null)
    ELSE IF nav.selectedTaskId # Null
         THEN Target("PageTaskDetails", nav.selectedTaskId)
    ELSE IF nav.selectedGroupId # Null
         THEN Target("PageGroupDetails", nav.selectedGroupId)
    ELSE CASE nav.currentPage = "myTasks" -> Target("PageMyTasks", Null)
           [] nav.currentPage = "myGroups" -> Target("PageMyGroups", Null)
           [] nav.currentPage = "adminCreateTask" ->
                  Target("PageAdminCreateTask", Null)
           [] nav.currentPage = "adminCreateGroup" ->
                  Target("PageAdminCreateGroup", Null)
           [] nav.currentPage = "adminAllGroups" ->
                  Target("PageAdminAllGroups", Null)
           [] OTHER -> Target("PageMyTasks", Null)

\* renderPage without the wait for the identity.
renderPageWithoutUser(err, usr, nav) ==
    IF err # Null THEN Target("ErrorDisplay", Null)
    ELSE IF nav.selectedTaskId # Null
         THEN Target("PageTaskDetails", nav.selectedTaskId)
    ELSE IF nav.selectedGroupId # Null
         THEN Target("PageGroupDetails", nav.selectedGroupId)
    ELSE CASE nav.currentPage = "myTasks" -> Target("PageMyTasks", Null)
           [] nav.currentPage = "myGroups" -> Target("PageMyGroups", Null)
           [] nav.currentPage = "adminCreateTask" ->
                  Target("PageAdminCreateTask", Null)
           [] nav.currentPage = "adminCreateGroup" ->
                  Target("PageAdminCreateGroup", Null)
           [] nav.currentPage = "adminAllGroups" ->
                  Target("PageAdminAllGroups", Null)
           [] OTHER -> Target("PageMyTasks", Null)

renderPage(err, usr, nav) ==
    IF err # Null THEN Target("ErrorDisplay", Null)
    ELSE IF usr = Null THEN Target("Loading", Null)
    ELSE IF nav.selectedTaskId # Null
         THEN Target("PageTaskDetails", nav.selectedTaskId)
    ELSE IF nav.selectedGroupId # Null
         THEN Target("PageGroupDetails", nav.selectedGroupId)
    ELSE CASE nav.currentPage = "myTasks" -> Target("PageMyTasks", Null)
           [] nav.currentPage = "myGroups" -> Target("PageMyGroups", Null)
           [] nav.currentPage = "adminCreateTask" ->
                  Target("PageAdminCreateTask", Null)
           [] nav.currentPage = "adminCreateGroup" ->
                  Target("PageAdminCreateGroup", Null)
           [] nav.currentPage = "adminAllGroups" ->
                  Target("PageAdminAllGroups", Null)
           [] OTHER -> Target("PageMyTasks", Null)

\* Gateway operation a page component's load function calls; Null for the
\* components that fetch nothing on mount.
LoadOp(comp) ==
    CASE comp = "PageMyTasks" -> "fetchUserTasks"
      [] comp = "PageTaskDetails" -> "fetchTaskDetails"
      [] comp = "PageMyGroups" -> "fetchUserGroups"
      [] comp = "PageGroupDetails" -> "fetchGroupDetails"
      [] comp = "PageAdminAllGroups" -> "fetchAllGroups"
      [] OTHER -> Null

ListOps == {"fetchUserTasks", "fetchUserGroups", "fetchAllGroups"}
DetailOps == {"fetchTaskDetails", "fetchGroupDetails"}
CreateOps == {"createTask", "createGroup"}

\* A request in flight.  owner is the component instance whose callbacks
\* wait for it: "app" (App, never unmounted), "page" (the page instance
\* now mounted) or "gone" (a page instance unmounted since).
Request(op, key, owner) == [op |-> op, key |-> key, owner |-> owner]
NoRequest == Request(Null, Null, Null)

\* State of a mounted component: its useState cells at their initial values.
PageState(comp, key) ==
    [comp |-> comp, key |-> key, hasData |-> FALSE, data |-> {},
     error |-> Null, isLoading |-> FALSE]

\* A load function that requests the data without resetting the cells.
LoadWithoutReset(pg) ==
    [page |-> pg, reqs |-> {Request(LoadOp(pg.comp), pg.key, "page")}]

\* loadTasks / loadTaskDetails / loadGroups / loadGroupDetails: reset both
\* cells and request the data.
Load(pg) ==
    [page |-> [pg EXCEPT !.error = Null, !.hasData = FALSE, !.data = {}],
     reqs |-> {Request(LoadOp(pg.comp), pg.key, "page")}]

\* React reconciliation of renderPage's output against the mounted
\* component, followed by the useEffect(load, [api, key]) it triggers.
\* remount: the mounted instance was unmounted (another component type
\* took its place).
Reconcile(pg, target) ==
    IF target.comp = pg.comp
    THEN IF target.key = pg.key \/ LoadOp(pg.comp) = Null
         THEN [page |-> pg, reqs |-> {}, remount |-> FALSE]
         ELSE LET l == Load([pg EXCEPT !.key = target.key])
              IN  [page |-> l.page, reqs |-> l.reqs, remount |-> FALSE]
    ELSE IF LoadOp(target.comp) = Null
         THEN [page |-> PageState(target.comp, target.key), reqs |-> {},
               remount |-> TRUE]
    ELSE LET l == Load(PageState(target.comp, target.key))
         IN  [page |-> l.page, reqs |-> l.reqs, remount |-> TRUE]

\* Component state shared by every instance of a screen: a completion
\* writes whenever a component of the requesting type is mounted.
OwnsByScreen(req) == req.owner # "app" /\ LoadOp(page.comp) = req.op

\* A completion may write a component's state only while the instance that
\* issued the request is still the mounted one: a state setter of an
\* unmounted instance does nothing.
Owns(req) == req.owner = "page"

\* Unmounting that leaves the callbacks of the old instance attached to
\* whatever is mounted next.
UnmountedStillAttached(req) == req

\* Unmounting the page instance leaves its requests in flight.
Unmounted(req) == IF req.owner = "page" THEN [req EXCEPT !.owner = "gone"] ELSE req
Detach(infl) == BagOfAll(Unmounted, infl)

\* ------------------------------------------------------------- history
\* Record of a step: the handler that ran (op), its arguments (page, id,
\* filled), the navigation state it started from (pre) and, for a
\* completion, the request, the response and what apiFetch made of it.
Step(op) ==
    [op |-> op, page |-> Null, id |-> Null, filled |-> {}, pre |-> CurrentNav,
     req |-> NoRequest, resp |-> NetworkFailure, outcome |-> ResolveNull]
Completion(op, req, resp, outcome) ==
    [Step(op) EXCEPT !.req = req, !.resp = resp, !.outcome = outcome]

\* ---------------------------------------------------------------- steps
NoTimers == [createTask |-> 0, createGroup |-> 0]
TimerCount(tmrs) == tmrs.createTask + tmrs.createGroup

\* The identity effect without a dependency list: it runs after every
\* render.
identityEffectAlways(prev, base) == TRUE

\* The identity effect runs after a commit that changed its dependencies
\* [api, apiBaseUrl]; useMemo (line 744) gives a new api exactly when
\* apiBaseUrl changed.  prev, base: apiBaseUrl before and after the commit.
identityEffectDue(prev, base) == prev # base

\* Commit of one handler's state updates: the new base address (base) and
\* App state, the handler's writes to the mounted component (pg), its own
\* requests (own), the requests still in flight (infl) and the pending
\* timers (tmrs); then the identity effect (lines 784-801) when it is due.
CommitBase(base, err, usr, nav, pg, own, infl, tmrs) ==
    LET fetchUser == identityEffectDue(apiBaseUrl, base) /\ base # ""
        shown == IF fetchUser THEN Null ELSE err
        r == Reconcile(pg, renderPage(shown, usr, nav))
        kept == IF r.remount THEN Detach(infl) ELSE infl
        issued == IF fetchUser THEN {Request("fetchUserData", Null, "app")}
                  ELSE {}
        all == kept (+) SetToBag(own \cup r.reqs \cup issued)
    IN  /\ BagCardinality(all) + TimerCount(tmrs) <= MaxPending
        /\ error' = shown
        /\ user' = usr
        /\ currentPage' = nav.currentPage
        /\ selectedTaskId' = nav.selectedTaskId
        /\ selectedGroupId' = nav.selectedGroupId
        /\ page' = r.page
        /\ inflight' = all
        /\ timers' = tmrs
        /\ UNCHANGED <<launch, tg>>

\* Commit of a handler that leaves the base address alone.
Commit(err, usr, nav, pg, own, infl, tmrs) ==
    CommitBase(apiBaseUrl, err, usr, nav, pg, own, infl, tmrs)

Init ==
    /\ launch \in LaunchParams
    /\ tg \in BOOLEAN
    /\ phase = "boot"
    /\ apiBaseUrl = ""
    /\ error = Null
    /\ user = Null
    /\ currentPage = "myTasks"
    /\ selectedTaskId = Null
    /\ selectedGroupId = Null
    /\ page = PageState("Loading", Null)
    /\ inflight = EmptyBag
    /\ timers = NoTimers
    /\ last = Step("none")

\* App's mount effects: the init effect (lines 747-781) and, in the commit
\* that follows it, the identity effect (lines 784-801).
InitEffect ==
    /\ phase = "boot"
    /\ phase' = "running"
    /\ LET r == ResolveEndpoint(launch)
       IN  /\ apiBaseUrl' = r.apiBaseUrl
           /\ CommitBase(r.apiBaseUrl, r.error, user, CurrentNav, page, {},
                         inflight, timers)
    /\ last' = Step("init")

\* Roles the body of a response to fetchUserData may name.
RolePayloads(resp) == IF resp.body.kind # "json" THEN {Null} ELSE Roles

\* Completion of fetchUserData (lines 788-799).
IdentityLoaded(req, resp, role) ==
    /\ BagIn(req, inflight)
    /\ req.op = "fetchUserData"
    /\ role \in RolePayloads(resp)
    /\ LET out == apiFetch(resp, Payload({}, role))
           loaded == out.kind = "resolve" /\ ~out.nodata
           err == IF out.kind = "reject" THEN AuthErrorPrefix \o out.message
                  ELSE IF out.nodata
                       THEN AuthErrorPrefix \o NullRoleMessage
                       ELSE error
           nav == IF loaded
                  THEN [CurrentNav EXCEPT
                            !.currentPage = InitialPage(out.value.role)]
                  ELSE CurrentNav
       IN  /\ Commit(err, IF loaded THEN out.value.role ELSE user, nav, page,
                     {}, inflight (-) SetToBag({req}), timers)
           /\ last' = Completion("identity", req, resp, out)
    /\ UNCHANGED <<phase, apiBaseUrl>>

\* BottomNavBar button (lines 713-716), shown when user && !error.
Navigate(pg) ==
    /\ user # Null
    /\ error = Null
    /\ pg \in itemsToShow(user)
    /\ Commit(error, user, handleNavigate(pg), page, {}, inflight, timers)
    /\ last' = [Step("navigate") EXCEPT !.page = pg]
    /\ UNCHANGED <<phase, apiBaseUrl>>

\* handleSelectTask handed to the group list as well.
onSelectTaskFromGroups(comp) == comp \in {"PageMyTasks", "PageMyGroups"}

\* Components renderPage hands handleSelectTask to (lines 895, 908).
onSelectTask(comp) == comp = "PageMyTasks"

\* ListItem click on PageMyTasks (line 308).
SelectTask(taskId) ==
    /\ onSelectTask(page.comp)
    /\ page.hasData
    /\ taskId \in page.data
    /\ Commit(error, user, handleSelectTask(CurrentNav, taskId), page, {},
              inflight, timers)
    /\ last' = [Step("selectTask") EXCEPT !.id = taskId]
    /\ UNCHANGED <<phase, apiBaseUrl>>

\* handleSelectGroup handed to the task details page as well (its group
\* row opening the group).
onSelectGroupFromTaskDetails(comp) ==
    comp \in {"PageMyGroups", "PageAdminAllGroups", "PageTaskDetails"}

\* Components renderPage hands handleSelectGroup to (lines 897, 904).
onSelectGroup(comp) == comp \in {"PageMyGroups", "PageAdminAllGroups"}

\* ListItem click on PageMyGroups or PageAdminAllGroups (lines 407, 645).
SelectGroup(groupId) ==
    /\ onSelectGroup(page.comp)
    /\ page.hasData
    /\ groupId \in page.data
    /\ Commit(error, user, handleSelectGroup(CurrentNav, groupId), page, {},
              inflight, timers)
    /\ last' = [Step("selectGroup") EXCEPT !.id = groupId]
    /\ UNCHANGED <<phase, apiBaseUrl>>

\* Page whose list the Header back button of a details page returns to.
onBackTarget(comp) == IF comp = "PageTaskDetails" THEN "myTasks" ELSE "myGroups"

\* Header back button of the details pages (lines 878, 887).
HeaderBack ==
    /\ page.comp \in {"PageTaskDetails", "PageGroupDetails"}
    /\ Commit(error, user, handleNavigate(onBackTarget(page.comp)), page, {},
              inflight, timers)
    /\ last' = Step("headerBack")
    /\ UNCHANGED <<phase, apiBaseUrl>>

\* Telegram BackButton click: the back-button effect (lines 832-847)
\* registers handleBack only when the WebApp object exists.
Back ==
    /\ phase = "running"
    /\ tg
    /\ Commit(error, user, handleBack(CurrentNav, tg), page, {}, inflight,
              timers)
    /\ last' = Step("back")
    /\ UNCHANGED <<phase, apiBaseUrl>>

\* Retry button of ErrorDisplay inside a data page (lines 298, 343, 396,
\* 442, 634): calls the page's load function again.
Retry ==
    /\ LoadOp(page.comp) # Null
    /\ page.error # Null
    /\ LET l == Load(page)
       IN  Commit(error, user, CurrentNav, l.page, l.reqs, inflight, timers)
    /\ last' = Step("retry")
    /\ UNCHANGED <<phase, apiBaseUrl>>

\* .then(setX).catch(e => setError(e.message)) of a load function.
ApplyLoadOutcome(pg, out) ==
    IF out.kind = "reject" THEN [pg EXCEPT !.error = out.message]
    ELSE IF out.nodata THEN [pg EXCEPT !.hasData = FALSE, !.data = {}]
    ELSE [pg EXCEPT !.hasData = TRUE, !.data = out.value.ids]

\* Values the body of a response to a data request may decode to: the
\* requested record for a details request, an empty or a full list for a
\* list request; nothing when the body is not JSON.
LoadPayloads(req, resp) ==
    IF resp.body.kind # "json" THEN {{}}
    ELSE IF req.op \in DetailOps THEN {{req.key}} ELSE {{}, Ids}

\* Completion of a page's data request.
LoadCompleted(req, resp, items) ==
    /\ BagIn(req, inflight)
    /\ req.op \in ListOps \cup DetailOps
    /\ items \in LoadPayloads(req, resp)
    /\ LET out == apiFetch(resp, Payload(items, Null))
           pg == IF Owns(req) THEN ApplyLoadOutcome(page, out) ELSE page
       IN  /\ Commit(error, user, CurrentNav, pg, {}, inflight (-) SetToBag({req}), timers)
           /\ last' = Completion("loaded", req, resp, out)
    /\ UNCHANGED <<phase, apiBaseUrl>>

\* Required-field checks of the two forms (lines 496, 566): the names of
\* the required fields left empty.
RequiredTaskFields == {"title", "project", "group", "assignee"}
RequiredGroupFields == {"name"}
Required(comp) ==
    IF comp = "PageAdminCreateTask" THEN RequiredTaskFields
    ELSE RequiredGroupFields
RequiredMessage(comp) ==
    IF comp = "PageAdminCreateTask" THEN TaskRequiredMessage
    ELSE GroupRequiredMessage
CreateOp(comp) ==
    IF comp = "PageAdminCreateTask" THEN "createTask" ELSE "createGroup"

\* Validation that forgets the assignee field.
ValidateWithoutAssignee(comp, filled) ==
    (Required(comp) \ {"assignee"}) \subseteq filled

\* TRUE when the form data passes the handler's validation; filled is the
\* set of fields with a non-empty value.
Validate(comp, filled) == Required(comp) \subseteq filled

\* handleSubmit whose validation branch returns without
\* setIsLoading(false).
handleSubmitLockingInvalid(pg, filled) ==
    IF Validate(pg.comp, filled)
    THEN [page |-> [pg EXCEPT !.isLoading = TRUE, !.error = Null],
          reqs |-> {Request(CreateOp(pg.comp), Null, "page")}]
    ELSE [page |-> [pg EXCEPT !.isLoading = TRUE,
                              !.error = RequiredMessage(pg.comp)],
          reqs |-> {}]

\* handleSubmit up to its first await (lines 487-503, 558-573).
handleSubmit(pg, filled) ==
    IF Validate(pg.comp, filled)
    THEN [page |-> [pg EXCEPT !.isLoading = TRUE, !.error = Null],
          reqs |-> {Request(CreateOp(pg.comp), Null, "page")}]
    ELSE [page |-> [pg EXCEPT !.isLoading = FALSE,
                              !.error = RequiredMessage(pg.comp)],
          reqs |-> {}]

\* Form contents submitted: every required field filled, exactly one
\* left empty, or all left empty.
FormInputs ==
    {RequiredTaskFields, RequiredGroupFields, {}}
        \cup {RequiredTaskFields \ {f} : f \in RequiredTaskFields}

\* Form submission; the submit button is disabled while isLoading.
Submit(filled) ==
    /\ page.comp \in {"PageAdminCreateTask", "PageAdminCreateGroup"}
    /\ ~page.isLoading
    /\ filled \subseteq Required(page.comp)
    /\ LET h == handleSubmit(page, filled)
       IN  Commit(error, user, CurrentNav, h.page, h.reqs, inflight, timers)
    /\ last' = [Step("submit") EXCEPT !.filled = filled]
    /\ UNCHANGED <<phase, apiBaseUrl>>

\* Both creation callbacks returning to the task list.
onCreatedTargetTasks(op) == "myTasks"

\* onTaskCreated / onGroupCreated passed by renderPage (lines 900, 902).
onCreatedTarget(op) == IF op = "createTask" THEN "myTasks" ELSE "adminAllGroups"

\* The statements after the await run however the request settled.
createSettled(out) == TRUE

\* try { await api.createTask(data); ... } catch: the statements after the
\* await run when the promise resolved, the catch block when it rejected.
createResolved(out) == out.kind = "resolve"

\* Rest of handleSubmit after the await (lines 503-519, 573-588).
CreateCompleted(req, resp) ==
    /\ BagIn(req, inflight)
    /\ req.op \in CreateOps
    /\ LET out == apiFetch(resp, EmptyPayload)
           ok == createResolved(out)
           alive == Owns(req)
           pg == IF ~alive THEN page
                 ELSE IF ok THEN [page EXCEPT !.isLoading = FALSE]
                 ELSE [page EXCEPT !.isLoading = FALSE, !.error = out.message]
           nav == IF ok /\ ~tg THEN handleNavigate(onCreatedTarget(req.op))
                  ELSE CurrentNav
           tmrs == IF ok /\ tg THEN [timers EXCEPT ![req.op] = @ + 1]
                   ELSE timers
       IN  /\ Commit(error, user, nav, pg, {}, inflight (-) SetToBag({req}), tmrs)
           /\ last' = Completion("created", req, resp, out)
    /\ UNCHANGED <<phase, apiBaseUrl>>

\* The setTimeout callback (lines 507-510, 576-579).
TimerFired(op) ==
    /\ timers[op] > 0
    /\ Commit(error, user, handleNavigate(onCreatedTarget(op)), page, {},
              inflight, [timers EXCEPT ![op] = @ - 1])
    /\ last' = [Step("timer") EXCEPT !.id = op]
    /\ UNCHANGED <<phase, apiBaseUrl>>

Next ==
    \/ InitEffect
    \/ \E req \in BagToSet(inflight), resp \in Responses :
           \E role \in RolePayloads(resp) : IdentityLoaded(req, resp, role)
    \/ \E pg \in Pages : Navigate(pg)
    \/ \E id \in Ids : SelectTask(id)
    \/ \E id \in Ids : SelectGroup(id)
    \/ HeaderBack
    \/ Back
    \/ Retry
    \/ \E req \in BagToSet(inflight), resp \in Responses :
           \E items \in LoadPayloads(req, resp) : LoadCompleted(req, resp, items)
    \/ \E filled \in FormInputs : Submit(filled)
    \/ \E req \in BagToSet(inflight), resp \in Responses : CreateCompleted(req, resp)
    \/ \E op \in CreateOps : TimerFired(op)

Spec == Init /\ [][Next]_vars

\* A callback handed to setTimeout runs once its delay has elapsed: the
\* event loop leaves no due timer waiting for ever.
FairSpec == Spec /\ \A op \in CreateOps : WF_vars(TimerFired(op))

\* ================================================================ claims
NoRequests == BagCardinality(inflight) = 0
NoSelection == selectedTaskId = Null /\ selectedGroupId = Null
IsCompletion(step) == step.op \in {"identity", "loaded", "created"}

\* C1: with the launch parameter missing, the session is in the fatal
\* configuration-error state once the init effect has run, and no gateway
\* request is ever in flight (hence none is ever issued), whatever the
\* user does afterwards.
C1_NoRequestWithoutEndpoint ==
    launch = "absent" =>
        /\ NoRequests
        /\ timers = NoTimers
        /\ user = Null
        /\ phase = "running" =>
               error = ConfigErrorMessage /\ page.comp = "ErrorDisplay"

C1_Witness ==
    /\ launch = "absent"
    /\ error = ConfigErrorMessage
    /\ last.op = "back"

\* C2: the completion of a details fetch whose key is not the key of the
\* mounted details component changes nothing of that component, and the
\* data a details component shows is the record of its own key.
C2_StaleFetchIgnored ==
    /\ [](page.comp \in {"PageTaskDetails", "PageGroupDetails"} /\ page.hasData
            => page.data = {page.key})
    /\ [][(/\ last'.op = "loaded"
           /\ last'.req.op \in DetailOps
           /\ last'.req.key # page.key) => page' = page]_vars

C2_Witness ==
    /\ last.op = "loaded"
    /\ last.req = Request("fetchTaskDetails", "A", "gone")
    /\ last.outcome.kind = "resolve"
    /\ ~last.outcome.nodata
    /\ page.comp = "PageTaskDetails"
    /\ page.key = "B"
    /\ page.hasData
    /\ page.data = {"B"}

\* C3: a non-success response whose body is a JSON object with a message
\* makes the gateway call fail with "API Error (<status>): <message>".
C3_JsonErrorMessage ==
    (/\ IsCompletion(last)
     /\ last.resp.net = "ok"
     /\ ~ResponseOk(last.resp)
     /\ last.resp.body.kind = "json"
     /\ last.resp.body.message # "")
    => /\ last.outcome.kind = "reject"
       /\ last.outcome.message =
              "API Error (" \o ToString(last.resp.status) \o "): "
                  \o last.resp.body.message

\* C4: a non-success response whose body is not JSON makes the gateway call
\* fail with "API Error (<status>): <raw text>".
C4_TextErrorMessage ==
    (/\ IsCompletion(last)
     /\ last.resp.net = "ok"
     /\ ~ResponseOk(last.resp)
     /\ last.resp.body.kind = "text")
    => /\ last.outcome.kind = "reject"
       /\ last.outcome.message =
              "API Error (" \o ToString(last.resp.status) \o "): "
                  \o last.resp.body.raw

\* C5: after navigate(screen), currentPage is that screen and neither
\* selection is set.
C5_NavigateClearsSelection ==
    last.op = "navigate" => currentPage = last.page /\ NoSelection

C5_Witness ==
    /\ last.op = "navigate"
    /\ last.pre.selectedTaskId # Null
    /\ last.page = "myGroups"
    /\ currentPage = "myGroups"

\* C6: the identity load puts an admin on adminCreateTask and a user on
\* myTasks; the identity is loaded at most once; and any other step that
\* moves currentPage to adminCreateTask is an explicit navigate to it.
C6_AdminRedirectOnce ==
    /\ [](last.op = "identity" /\ user # Null =>
            currentPage = (IF user = "admin" THEN "adminCreateTask"
                           ELSE "myTasks"))
    /\ [][user # Null => user' = user /\ last'.op # "identity"]_vars
    /\ [][(currentPage' = "adminCreateTask" /\ currentPage # "adminCreateTask")
            => \/ last'.op = "identity" /\ user = Null /\ user' = "admin"
               \/ last'.op = "navigate" /\ last'.page = "adminCreateTask"]_vars

C6_Witness ==
    /\ user = "admin"
    /\ currentPage = "myTasks"
    /\ last.op = "loaded"
    /\ last.pre.currentPage = "myTasks"

\* C7: back with a selection active (Telegram back button or the header's
\* back button) ends on myTasks when a task was selected and on myGroups
\* when only a group was, with neither selection set.
C7_BackFromDetails ==
    (/\ last.op \in {"back", "headerBack"}
     /\ (last.pre.selectedTaskId # Null \/ last.pre.selectedGroupId # Null))
    => /\ currentPage = (IF last.pre.selectedTaskId # Null THEN "myTasks"
                         ELSE "myGroups")
       /\ NoSelection

C7_Witness ==
    /\ last.op = "back"
    /\ last.pre.selectedGroupId # Null
    /\ last.pre.selectedTaskId = Null
    /\ user = "admin"
    /\ currentPage = "myGroups"

\* C8: back with no selection active ends on myTasks with neither
\* selection set, whatever tab was current.
C8_BackWithoutSelection ==
    (/\ last.op = "back"
     /\ last.pre.selectedTaskId = Null
     /\ last.pre.selectedGroupId = Null)
    => currentPage = "myTasks" /\ NoSelection

C8_Witness ==
    /\ last.op = "back"
    /\ last.pre = Nav("adminAllGroups", Null, Null)
    /\ currentPage = "myTasks"
    /\ page.comp = "PageMyTasks"

\* C9: a submit with a required field empty issues no request and, in the
\* same step, shows the form's validation message with the form unlocked.
C9_InvalidSubmitBlocked ==
    [][(/\ last'.op = "submit"
        /\ page.comp \in {"PageAdminCreateTask", "PageAdminCreateGroup"}
        /\ \E f \in (IF page.comp = "PageAdminCreateTask"
                     THEN {"title", "project", "group", "assignee"}
                     ELSE {"name"}) : f \notin last'.filled)
       => /\ inflight' = inflight
          /\ page'.comp = page.comp
          /\ page'.error = (IF page.comp = "PageAdminCreateTask"
                            THEN TaskRequiredMessage ELSE GroupRequiredMessage)
          /\ ~page'.isLoading]_vars

C9_Witness ==
    /\ last.op = "submit"
    /\ last.filled = {"title", "project", "group"}
    /\ page.comp = "PageAdminCreateTask"
    /\ page.error = TaskRequiredMessage
    /\ NoRequests

C11_AtMostOneSelection == selectedTaskId = Null \/ selectedGroupId = Null

C11_Witness ==
    /\ last.op = "selectGroup"
    /\ last.pre = Nav("adminAllGroups", Null, Null)
    /\ selectedGroupId = "A"
    /\ selectedTaskId = Null
    /\ page.comp = "PageGroupDetails"

\* Requests of one gateway operation in flight, whichever instance of the
\* form issued them.
InFlightOf(op) ==
    CopiesIn(Request(op, Null, "page"), inflight)
        + CopiesIn(Request(op, Null, "gone"), inflight)

\* C12: for each creation form (task, group) at most one of its create
\* requests is in flight, and while one is in flight the form accepts no
\* submit.
C12_SingleCreateInFlight ==
    \A op \in CreateOps :
        /\ InFlightOf(op) <= 1
        /\ (InFlightOf(op) = 1 /\ CreateOp(page.comp) = op
               /\ page.comp \in {"PageAdminCreateTask", "PageAdminCreateGroup"})
           => page.isLoading

\* C13: a data page whose fetch is in flight shows pending (no error, no
\* data), and once the completion of its fetch has been applied it shows
\* an error or data, whatever the gateway returned.
C13_CompletionEndsPending ==
    /\ \A req \in BagToSet(inflight) :
           (req.owner = "page" /\ req.op \in ListOps \cup DetailOps)
               => page.error = Null /\ ~page.hasData
    /\ (last.op = "loaded" /\ last.req.owner = "page")
           => page.error # Null \/ page.hasData

\* C14: once the fatal error is set it keeps its value in every later
\* step, the error screen is what is mounted, and no step from such a state
\* is a navigation-bar navigate or a list selection.
C14_FatalErrorPermanent ==
    /\ [](error # Null => page.comp = "ErrorDisplay")
    /\ [][error # Null =>
            /\ error' = error
            /\ last'.op \notin {"navigate", "selectTask", "selectGroup"}]_vars

C14_Witness ==
    /\ error = AuthErrorPrefix \o FetchFailedMessage
    /\ last.op = "back"
    /\ page.comp = "ErrorDisplay"
    /\ user = Null

\* C15: the step in which a data fetch fails leaves apiBaseUrl, user, the
\* fatal error, currentPage and both selections as they were; it writes
\* the message into the component that issued the fetch and nothing else
\* (nothing at all when that component is no longer mounted); and the
\* navigation bar is shown afterwards (user loaded, no fatal error).
C15_LoadFailureLocal ==
    [][(last'.op = "loaded" /\ last'.outcome.kind = "reject") =>
          /\ apiBaseUrl' = apiBaseUrl
          /\ user' = user
          /\ error' = error
          /\ currentPage' = currentPage
          /\ selectedTaskId' = selectedTaskId
          /\ selectedGroupId' = selectedGroupId
          /\ page' = (IF last'.req.owner = "page"
                      THEN [page EXCEPT !.error = last'.outcome.message]
                      ELSE page)
          /\ user' # Null
          /\ error' = Null]_vars

C15_Witness ==
    /\ last.op = "loaded"
    /\ last.outcome.kind = "reject"
    /\ last.req = Request("fetchAllGroups", Null, "page")
    /\ page.comp = "PageAdminAllGroups"
    /\ page.error = last.outcome.message
    /\ currentPage = "adminAllGroups"
    /\ user = "admin"
    /\ error = Null

\* C16: a fetchUserData request is in flight only with the base address
\* resolved from the launch parameter, and a data or creation request (or
\* a creation timer) only with the identity loaded and no fatal error;
\* with the identity fetch failed nothing is in flight.
C16_DependencyChain ==
    /\ \A req \in BagToSet(inflight) :
           IF req.op = "fetchUserData"
           THEN apiBaseUrl # "" /\ apiBaseUrl = launch /\ user = Null
           ELSE apiBaseUrl # "" /\ user # Null /\ error = Null
    /\ timers # NoTimers => user # Null /\ error = Null
    /\ error # Null => NoRequests /\ timers = NoTimers /\ user = Null

C16_Witness ==
    /\ BagIn(Request("createGroup", Null, "gone"), inflight)
    /\ BagIn(Request("fetchAllGroups", Null, "page"), inflight)
    /\ user = "admin"
    /\ apiBaseUrl = "http://host"

\* C17: with a base address in the launch parameter, fetchUserData is
\* issued by the init step and by no other step, it is in flight exactly
\* until the identity or the fatal error is written, and user is written
\* only once, by its completion.
C17_IdentityFetchedOnce ==
    /\ []((phase = "running" /\ launch \notin {"absent", "empty"}) =>
            CopiesIn(Request("fetchUserData", Null, "app"), inflight)
                = (IF user = Null /\ error = Null THEN 1 ELSE 0))
    /\ [][CopiesIn(Request("fetchUserData", Null, "app"), inflight')
              > CopiesIn(Request("fetchUserData", Null, "app"), inflight)
            => last'.op = "init"]_vars
    /\ [][user' # user => user = Null /\ last'.op = "identity"]_vars

C17_Witness ==
    /\ launch = "http://host"
    /\ user = "user"
    /\ last.op = "retry"
    /\ ~BagIn(Request("fetchUserData", Null, "app"), inflight)
    /\ BagIn(Request("fetchUserTasks", Null, "page"), inflight)

\* The mounted data page shows the error of its failed fetch.
PageFailed == LoadOp(page.comp) # Null /\ page.error # Null

\* C18: a data page showing the error of its failed fetch has no request
\* of its own in flight; while it stays mounted the only step that changes
\* it or issues a request for it is the user's retry; and a retry puts
\* exactly one request for that page in flight and resets the page to
\* pending (no error, no data).
C18_RetryUserTriggered ==
    /\ [](PageFailed =>
            \A req \in BagToSet(inflight) : req.owner # "page")
    /\ [][(/\ PageFailed
           /\ page'.comp = page.comp
           /\ page'.key = page.key
           /\ (page' # page \/ inflight' # inflight))
          => \/ last'.op = "retry"
             \/ /\ IsCompletion(last')
                /\ page' = page
                /\ inflight' = inflight (-) SetToBag({last'.req})]_vars
    /\ [][last'.op = "retry" =>
            /\ PageFailed
            /\ inflight' = inflight (+)
                   SetToBag({Request(LoadOp(page.comp), page.key, "page")})
            /\ page' = [page EXCEPT !.error = Null, !.hasData = FALSE,
                                    !.data = {}]]_vars

C18_Witness ==
    /\ last.op = "retry"
    /\ page.comp = "PageTaskDetails"
    /\ page.key = "B"
    /\ page.error = Null
    /\ ~page.hasData
    /\ inflight = SetToBag({Request("fetchTaskDetails", "B", "page")})

\* C19: the step in which a creation request fails leaves currentPage and
\* both selections as they were, neither runs nor schedules the completion
\* callback, and writes into the form that issued the request the error
\* message the gateway call rejected with, unlocking the form (it writes
\* nothing when that form is no longer mounted).
C19_CreateFailureStays ==
    [][(last'.op = "created" /\ last'.outcome.kind = "reject") =>
          /\ currentPage' = currentPage
          /\ selectedTaskId' = selectedTaskId
          /\ selectedGroupId' = selectedGroupId
          /\ timers' = timers
          /\ page' = (IF last'.req.owner = "page"
                      THEN [page EXCEPT !.error = last'.outcome.message,
                                        !.isLoading = FALSE]
                      ELSE page)
          /\ last'.req.owner = "page" =>
                 /\ page.comp \in {"PageAdminCreateTask",
                                   "PageAdminCreateGroup"}
                 /\ CreateOp(page.comp) = last'.req.op]_vars

C19_Witness ==
    /\ last.op = "created"
    /\ last.outcome.kind = "reject"
    /\ last.req = Request("createGroup", Null, "page")
    /\ page.comp = "PageAdminCreateGroup"
    /\ page.error = last.outcome.message
    /\ ~page.isLoading
    /\ currentPage = "adminCreateGroup"
    /\ timers = NoTimers

\* C20: a gateway call answered with a success status and no content-type,
\* or a content-type that is not application/json, resolves with the
\* no-data result (null); it does not reject.
C20_NoDataOnSuccess ==
    (/\ IsCompletion(last)
     /\ last.resp.net = "ok"
     /\ last.resp.status >= 200
     /\ last.resp.status <= 299
     /\ last.resp.ctype \notin {"application/json",
                                "application/json; charset=utf-8"})
    => last.outcome = ResolveNull

C20_Witness ==
    /\ last.op = "created"
    /\ last.req.op = "createGroup"
    /\ last.resp = RespPlainOk
    /\ last.outcome.kind = "resolve"
    /\ last.outcome.nodata
    /\ last.pre.currentPage = "adminCreateGroup"
    /\ currentPage = "adminAllGroups"

\* C21: after selectTask(id), selectedTaskId is id, currentPage is
\* taskDetails, selectedGroupId is what it was and the task details page
\* for id is mounted; after selectGroup(id), selectedGroupId is id,
\* currentPage is groupDetails, selectedTaskId is what it was and the group
\* details page for id is mounted unless a task is selected, in which case
\* the task details page is.
C21_SelectSetsOneId ==
    /\ last.op = "selectTask" =>
           /\ selectedTaskId = last.id
           /\ currentPage = "taskDetails"
           /\ selectedGroupId = last.pre.selectedGroupId
           /\ page.comp = "PageTaskDetails"
           /\ page.key = last.id
    /\ last.op = "selectGroup" =>
           /\ selectedGroupId = last.id
           /\ currentPage = "groupDetails"
           /\ selectedTaskId = last.pre.selectedTaskId
           /\ IF selectedTaskId # Null
              THEN page.comp = "PageTaskDetails" /\ page.key = selectedTaskId
              ELSE page.comp = "PageGroupDetails" /\ page.key = last.id

C21_Witness ==
    /\ last.op = "selectTask"
    /\ last.id = "B"
    /\ last.pre = Nav("myTasks", Null, Null)
    /\ selectedTaskId = "B"
    /\ currentPage = "taskDetails"
    /\ page.comp = "PageTaskDetails"

C23_CreatedCallbackOnce ==
    /\ [][(last'.op = "created" /\ last'.outcome.kind = "resolve") =>
            IF tg
            THEN /\ timers' = [timers EXCEPT ![last'.req.op] = @ + 1]
                 /\ currentPage' = currentPage
                 /\ selectedTaskId' = selectedTaskId
                 /\ selectedGroupId' = selectedGroupId
            ELSE /\ timers' = timers
                 /\ currentPage' = (IF last'.req.op = "createTask"
                                    THEN "myTasks" ELSE "adminAllGroups")
                 /\ selectedTaskId' = Null
                 /\ selectedGroupId' = Null]_vars
    /\ [][last'.op = "timer" =>
            /\ timers[last'.id] > 0
            /\ timers' = [timers EXCEPT ![last'.id] = @ - 1]
            /\ currentPage' = (IF last'.id = "createTask"
                               THEN "myTasks" ELSE "adminAllGroups")
            /\ selectedTaskId' = Null
            /\ selectedGroupId' = Null]_vars
    /\ [][timers' # timers =>
            \/ last'.op = "timer"
            \/ last'.op = "created" /\ last'.outcome.kind = "resolve"]_vars
    /\ \A op \in CreateOps :
           (timers[op] > 0) ~> (last.op = "timer" /\ last.id = op)

C23_Witness ==
    /\ tg
    /\ last.op = "timer"
    /\ last.id = "createGroup"
    /\ currentPage = "adminAllGroups"
    /\ page.comp = "PageAdminAllGroups"
    /\ timers = NoTimers

\* C24: the in-progress flag of the mounted form is true exactly while a
\* create request of that form is in flight; after a submit that failed
\* validation and after the completion of the form's request, whether it
\* succeeded or failed, the flag is false.
C24_FormUnlocked ==
    /\ page.isLoading <=>
           /\ page.comp \in {"PageAdminCreateTask", "PageAdminCreateGroup"}
           /\ BagIn(Request(IF page.comp = "PageAdminCreateTask"
                            THEN "createTask" ELSE "createGroup",
                            Null, "page"), inflight)
    /\ (last.op = "submit" /\ page.isLoading) =>
           (IF page.comp = "PageAdminCreateTask"
            THEN {"title", "project", "group", "assignee"}
            ELSE {"name"}) \subseteq last.filled
    /\ (last.op = "created" /\ last.req.owner = "page") => ~page.isLoading

C24_Witness ==
    /\ tg
    /\ last.op = "created"
    /\ last.req = Request("createTask", Null, "page")
    /\ last.outcome.kind = "resolve"
    /\ page.comp = "PageAdminCreateTask"
    /\ ~page.isLoading
    /\ timers.createTask = 1

\* C25: with an identity of role user, currentPage is none of the admin
\* tabs, no admin page is mounted, and no createTask, createGroup or
\* fetchAllGroups request (nor a creation timer) is pending.
C25_UserNeverOnAdminTabs ==
    user = "user" =>
        /\ currentPage \notin
               {"adminCreateTask", "adminCreateGroup", "adminAllGroups"}
        /\ page.comp \notin {"PageAdminCreateTask", "PageAdminCreateGroup",
                             "PageAdminAllGroups"}
        /\ \A req \in BagToSet(inflight) :
               req.op \notin {"createTask", "createGroup", "fetchAllGroups"}
        /\ timers = NoTimers

C25_Witness ==
    /\ user = "user"
    /\ last.op = "navigate"
    /\ last.page = "myGroups"
    /\ last.pre.currentPage = "myTasks"
    /\ currentPage = "myGroups"
    /\ page.comp = "PageMyGroups"

\* C26: while the delayed completion callback of a successful creation is
\* pending and its form is mounted, the form has no create request in
\* flight and accepts no submit (its in-progress flag is set).
C26_NoSubmitBeforeCallback ==
    \A op \in CreateOps :
        (/\ timers[op] > 0
         /\ page.comp \in {"PageAdminCreateTask", "PageAdminCreateGroup"}
         /\ CreateOp(page.comp) = op)
        => /\ ~BagIn(Request(op, Null, "page"), inflight)
           /\ page.isLoading

\* C27: when the delayed completion callback runs right after a step in
\* which the user navigated to a tab or selected a task or a group (so the
\* user acted while the callback was pending), it leaves currentPage and
\* both selections as the user left them.
C27_TimerKeepsNavigation ==
    [][(/\ last'.op = "timer"
        /\ last.op \in {"navigate", "selectTask", "selectGroup"})
       => /\ currentPage' = currentPage
          /\ selectedTaskId' = selectedTaskId
          /\ selectedGroupId' = selectedGroupId]_vars

C29_SelectOnlyFromLists ==
    /\ [][last'.op = "selectTask" =>
            /\ page.comp = "PageMyTasks"
            /\ error = Null
            /\ user # Null
            /\ selectedTaskId = Null
            /\ selectedGroupId = Null]_vars
    /\ [][last'.op = "selectGroup" =>
            /\ page.comp \in {"PageMyGroups", "PageAdminAllGroups"}
            /\ error = Null
            /\ user # Null
            /\ selectedTaskId = Null
            /\ selectedGroupId = Null]_vars
    /\ [](~(selectedTaskId # Null /\ selectedGroupId # Null))

C29_Witness ==
    /\ user = "user"
    /\ last.op = "selectGroup"
    /\ last.id = "B"
    /\ last.pre = Nav("myGroups", Null, Null)
    /\ selectedGroupId = "B"
    /\ selectedTaskId = Null

====
